---- MODULE Spec2Model ----
(***************************************************************************)
(* Model of the tabular transforms of submissions/python_task_1.py and     *)
(* submissions/python_task_2.py.                                           *)
(*                                                                         *)
(* A table (pandas DataFrame) is a sequence of rows; a row is a record     *)
(* whose fields are the table's columns.  A matrix-shaped frame is a       *)
(* record of its row labels, its column labels and its cells.  Every       *)
(* transform is a pure operator over tables, and one action that applies   *)
(* it to the caller's table df.  Each family of transforms has its own     *)
(* specification, which draws the input table row by row from small sets.  *)
(***************************************************************************)
EXTENDS Integers, Sequences, FiniteSets, TLC

VARIABLES
    pc,                   \* "input" while the table is drawn, then the step reached
    df,                   \* the caller's table, the argument of the call
    g,                    \* calculate_distance_matrix: the nx.DiGraph
    distance_df,          \* calculate_distance_matrix: the returned matrix
    car_matrix,           \* generate_car_matrix: the returned matrix
    unrolled_df,          \* unroll_distance_matrix: the returned table
    rebuilt_matrix,       \* generate_car_matrix applied to the unrolled table
    sorted_type_count,    \* get_type_count: the returned dict
    completeness_series,  \* time_check: the returned boolean series
    reference_id,         \* find_ids_within_ten_percentage_threshold: its argument
    filtered_df,          \* find_ids_within_ten_percentage_threshold: the returned table
    today,                \* calculate_time_based_toll_rates: weekday of datetime.today()
    result_df,            \* calculate_time_based_toll_rates: the returned table
    calls                 \* the transforms called on df so far, in order

vars == <<pc, df, g, distance_df, car_matrix, unrolled_df, rebuilt_matrix,
          sorted_type_count, completeness_series, reference_id, filtered_df,
          today, result_df, calls>>

dmVars == <<g, distance_df>>
cmVars == <<car_matrix, unrolled_df, rebuilt_matrix>>
gtVars == <<sorted_type_count>>
tcVars == <<completeness_series>>
tfVars == <<reference_id, filtered_df>>
twVars == <<today, result_df>>

\* ------------------------------------------------------------------ bounds
MaxEdges == 3
MaxCarRows == 3
MaxTypeRows == 4
MaxFilterRows == 3
MaxTollRows == 2
MaxFrameRows == 2
MaxCalls == 3
\* seconds in the model's day: pd.date_range('00:00:00', '23:59:59', freq='1S')
\* has 86400 of them, the model's day runs from second 0 to SecondsPerDay - 1
SecondsPerDay == 2

\* ----------------------------------------------------------------- helpers
Range(s) == {s[i] : i \in DOMAIN s}

RECURSIVE SumSeq(_)
SumSeq(s) == IF s = <<>> THEN 0 ELSE s[1] + SumSeq(Tail(s))

\* position of x in the sequence s (x occurs in s)
IndexOf(s, x) == CHOOSE i \in DOMAIN s : s[i] = x

MinOf(W) == CHOOSE w \in W : \A v \in W : w <= v

\* the elements of a set of integers in increasing order
RECURSIVE SortedSeq(_)
SortedSeq(S) ==
    IF S = {} THEN <<>> ELSE <<MinOf(S)>> \o SortedSeq(S \ {MinOf(S)})

Column(rows, c) == [i \in DOMAIN rows |-> rows[i][c]]

\* numpy's inf, the value of a cell with no path
Inf == 1000
\* a missing value (NaN, NaT)
NaN == -1

\* ------------------------------------------------- calculate_distance_matrix
\* node ids and distances the edge records are drawn from
Ids == {1, 2, 3, 4}
Dists == {0, 5}

InfPlus(a, b) == IF a = Inf \/ b = Inf THEN Inf ELSE a + b
InfMin(a, b) == IF a <= b THEN a ELSE b

EmptyGraph == [nodes |-> <<>>, adj |-> <<>>]

\* DiGraph.add_node as add_edge uses it: a node seen before keeps its place
add_node(gr, u) ==
    IF u \in Range(gr.nodes) THEN gr
    ELSE [gr EXCEPT !.nodes = Append(gr.nodes, u)]

\* mutant of add_edge: an edge that exists keeps its first weight
add_edge_keep_first(gr, u, v, w) ==
    LET g1 == add_node(add_node(gr, u), v)
    IN  [g1 EXCEPT !.adj = [p \in (DOMAIN g1.adj) \cup {<<u, v>>} |->
                               IF p \in DOMAIN g1.adj THEN g1.adj[p] ELSE w]]

\* DiGraph.add_edge(u, v, weight=w): the directed edge u -> v, its weight replaced
\* when the edge exists
add_edge(gr, u, v, w) ==
    LET g1 == add_node(add_node(gr, u), v)
    IN  [g1 EXCEPT !.adj = [p \in (DOMAIN g1.adj) \cup {<<u, v>>} |->
                               IF p = <<u, v>> THEN w ELSE g1.adj[p]]]

\* one record of the loop: both directions are added
add_row(gr, row) ==
    add_edge(add_edge(gr, row.id_start, row.id_end, row.distance),
             row.id_end, row.id_start, row.distance)

RECURSIVE build_graph(_, _)
build_graph(gr, rows) ==
    IF rows = <<>> THEN gr
    ELSE build_graph(add_row(gr, Head(rows)), Tail(rows))

\* mutant of to_numpy_array: the diagonal is not reset, a self-loop keeps its weight
to_numpy_array_no_fill(gr) ==
    LET n == Len(gr.nodes)
    IN  [i \in 1..n |-> [j \in 1..n |->
            IF <<gr.nodes[i], gr.nodes[j]>> \in DOMAIN gr.adj
            THEN gr.adj[<<gr.nodes[i], gr.nodes[j]>>]
            ELSE Inf]]

\* nx.to_numpy_array(G, nonedge=inf) followed by np.fill_diagonal(A, 0), the
\* first steps of nx.floyd_warshall_numpy
to_numpy_array(gr) ==
    LET n == Len(gr.nodes)
    IN  [i \in 1..n |-> [j \in 1..n |->
            IF i = j THEN 0
            ELSE IF <<gr.nodes[i], gr.nodes[j]>> \in DOMAIN gr.adj
                 THEN gr.adj[<<gr.nodes[i], gr.nodes[j]>>]
                 ELSE Inf]]

\* mutant of fw_step: no relaxation through the intermediate node k
fw_step_no_relax(A, k) == A

\* A = np.minimum(A, A[k, :][np.newaxis, :] + A[:, k][:, np.newaxis])
fw_step(A, k) ==
    [i \in DOMAIN A |-> [j \in DOMAIN A |->
        InfMin(A[i][j], InfPlus(A[k][j], A[i][k]))]]

RECURSIVE fw_loop(_, _)
fw_loop(A, k) ==
    IF k > Len(A) THEN A ELSE fw_loop(fw_step(A, k), k + 1)

floyd_warshall_numpy(gr) == fw_loop(to_numpy_array(gr), 1)

\* pd.DataFrame(distance_matrix, index=g.nodes, columns=g.nodes)
make_distance_df(gr) ==
    LET A == floyd_warshall_numpy(gr)
    IN  [index   |-> gr.nodes,
         columns |-> gr.nodes,
         cell    |-> [p \in Range(gr.nodes) \X Range(gr.nodes) |->
                         A[IndexOf(gr.nodes, p[1])][IndexOf(gr.nodes, p[2])]]]

\* ids are opaque labels: a record may use the ids seen so far and the next
\* fresh one (two fresh ones when both ends are new)
SeenIds(rows) ==
    {rows[i].id_start : i \in DOMAIN rows} \cup {rows[i].id_end : i \in DOMAIN rows}

FreshOk(rows, s, e) ==
    LET n == Cardinality(SeenIds(rows))
    IN  /\ s <= n + 1
        /\ e <= (IF s = n + 1 THEN n + 2 ELSE n + 1)

InitDM ==
    /\ pc = "input"
    /\ df = <<>>
    /\ g = EmptyGraph
    /\ distance_df = <<>>
    /\ car_matrix = <<>> /\ unrolled_df = <<>> /\ rebuilt_matrix = <<>>
    /\ sorted_type_count = <<>> /\ completeness_series = <<>>
    /\ reference_id = 0 /\ filtered_df = <<>>
    /\ today = 0 /\ result_df = <<>>
    /\ calls = <<>>

AppendEdge ==
    /\ pc = "input"
    /\ Len(df) < MaxEdges
    /\ \E s \in Ids, e \in Ids, d \in Dists :
          /\ FreshOk(df, s, e)
          /\ df' = Append(df, [id_start |-> s, id_end |-> e, distance |-> d])
    /\ UNCHANGED <<pc, dmVars, cmVars, gtVars, tcVars, tfVars, twVars, calls>>

calculate_distance_matrix ==
    /\ pc = "input"
    /\ df # <<>>
    /\ g' = build_graph(EmptyGraph, df)
    /\ distance_df' = make_distance_df(g')
    /\ pc' = "done"
    /\ calls' = Append(calls, "calculate_distance_matrix")
    /\ UNCHANGED <<df, cmVars, gtVars, tcVars, tfVars, twVars>>

NextDM == AppendEdge \/ calculate_distance_matrix

SpecDM == InitDM /\ [][NextDM]_vars

\* ---------------------------------------------------------------------------
\* Reference notions for the distance matrix, read off the edge table alone.

\* the records of rows that connect the unordered pair {a, b}
PairRecords(rows, a, b) ==
    {i \in DOMAIN rows : {rows[i].id_start, rows[i].id_end} = {a, b}}

LastRecord(rows, a, b) ==
    CHOOSE i \in PairRecords(rows, a, b) : \A k \in PairRecords(rows, a, b) : k <= i

\* the paths of the undirected graph of the records: sequences of distinct ids,
\* consecutive ids joined by some record; Extend adds one hop to every path
Extend(rows, P) ==
    {Append(p, n) : p \in P, n \in SeenIds(rows)} \cap
    {q \in Seq(SeenIds(rows)) :
        /\ Len(q) >= 2
        /\ \A x \in 1..(Len(q) - 1) : q[x] # q[Len(q)]
        /\ PairRecords(rows, q[Len(q) - 1], q[Len(q)]) # {}}

RECURSIVE PathsUpTo(_, _, _)
PathsUpTo(rows, P, k) ==
    IF k = 0 THEN P ELSE P \cup PathsUpTo(rows, Extend(rows, P), k - 1)

SimplePaths(rows) ==
    PathsUpTo(rows, {<<n>> : n \in SeenIds(rows)}, Cardinality(SeenIds(rows)) - 1)

PathWeight(rows, p) ==
    SumSeq([x \in 1..(Len(p) - 1) |-> rows[LastRecord(rows, p[x], p[x + 1])].distance])

\* C1: after calculate_distance_matrix, for any two ids joined by a chain of
\* records, cell (i, j) is the minimum total weight over all paths between i
\* and j in the undirected graph of the records, paths of several hops included.
C1_ShortestPaths ==
    pc = "done" =>
        LET P == SimplePaths(df)
        IN  \A i, j \in SeenIds(df) :
                LET Pij == {p \in P : p[1] = i /\ p[Len(p)] = j}
                IN  Pij # {} =>
                        distance_df.cell[<<i, j>>] =
                            MinOf({PathWeight(df, p) : p \in Pij})

\* a chain 1 - 2 - 3 - 4 with no direct record between 1 and 4: three hops
C1_Witness ==
    /\ pc = "done"
    /\ Len(g.nodes) = 4
    /\ PairRecords(df, 1, 4) = {}
    /\ distance_df.cell[<<1, 4>>] = 15
    /\ distance_df.cell[<<1, 3>>] = 10
    /\ distance_df.cell[<<1, 2>>] = 5 /\ distance_df.cell[<<2, 1>>] = 5

\* C2: the matrix is square, its row labels and its column labels are each the
\* ids seen as id_start or id_end, every id once, the diagonal is 0 and
\* cell (i, j) = cell (j, i), also with duplicate pairs, self-loop records and
\* disconnected ids.
C2_SquareSymmetricZeroDiagonal ==
    pc = "done" =>
        /\ Len(distance_df.index) = Len(distance_df.columns)
        /\ Range(distance_df.index) = SeenIds(df)
        /\ Range(distance_df.columns) = SeenIds(df)
        /\ Cardinality(Range(distance_df.index)) = Len(distance_df.index)
        /\ Cardinality(Range(distance_df.columns)) = Len(distance_df.columns)
        /\ DOMAIN distance_df.cell = SeenIds(df) \X SeenIds(df)
        /\ \A i \in SeenIds(df) : distance_df.cell[<<i, i>>] = 0
        /\ \A i, j \in SeenIds(df) :
              distance_df.cell[<<i, j>>] = distance_df.cell[<<j, i>>]

\* a self-loop record of positive distance, two records for one pair and a
\* pair of ids with no path between them
C2_Witness ==
    /\ pc = "done"
    /\ \E i \in DOMAIN df : df[i].id_start = df[i].id_end /\ df[i].distance > 0
    /\ \E a, b \in SeenIds(df) : a # b /\ Cardinality(PairRecords(df, a, b)) = 2
    /\ \E a, b \in SeenIds(df) : distance_df.cell[<<a, b>>] = Inf

\* the tables that differ from rows only in the distance of records that a
\* later record for the same unordered pair supersedes
Superseded(rows, i) ==
    \E k \in PairRecords(rows, rows[i].id_start, rows[i].id_end) : k > i

EarlierVaried(rows) ==
    LET S == {i \in DOMAIN rows : Superseded(rows, i)}
    IN  {[i \in DOMAIN rows |->
             IF i \in S THEN [rows[i] EXCEPT !.distance = f[i]] ELSE rows[i]] :
         f \in [S -> Dists]}

\* C10: with several records for one unordered pair, in either orientation,
\* the direct connection carries, in both directions, the distance of the
\* last such record, and the distances of the earlier records have no effect
\* on the matrix.
C10_LastWriteWins ==
    pc = "done" =>
        /\ \A a, b \in SeenIds(df) :
              PairRecords(df, a, b) # {} =>
                  /\ g.adj[<<a, b>>] = df[LastRecord(df, a, b)].distance
                  /\ g.adj[<<b, a>>] = df[LastRecord(df, a, b)].distance
        /\ \A t \in EarlierVaried(df) :
              make_distance_df(build_graph(EmptyGraph, t)) = distance_df

\* the pair {1, 2} recorded as (1, 2) and later as (2, 1) with another distance
C10_Witness ==
    /\ pc = "done"
    /\ \E i, k \in DOMAIN df :
          /\ i < k
          /\ df[i].id_start = 1 /\ df[i].id_end = 2
          /\ df[k].id_start = 2 /\ df[k].id_end = 1
          /\ df[i].distance # df[k].distance
          /\ LastRecord(df, 1, 2) = k
          /\ g.adj[<<1, 2>>] = df[k].distance
          /\ distance_df.cell[<<1, 2>>] = df[k].distance

\* ------------------------------------- generate_car_matrix, unroll_distance_matrix
\* ids and car values the (id_1, id_2, car) rows are drawn from
CarIds == {1, 2, 3}
CarVals == {5, 7}

DuplicatePairs(rows) ==
    \E i, k \in DOMAIN rows :
        i # k /\ rows[i].id_1 = rows[k].id_1 /\ rows[i].id_2 = rows[k].id_2

ErrorFrame(e) == [error |-> e, index |-> <<>>, columns |-> <<>>, cell |-> <<>>]

\* df.pivot(index='id_1', columns='id_2', values='car'): row labels the sorted
\* id_1 values, column labels the sorted id_2 values, NaN where no row gives the
\* cell; ValueError when an (id_1, id_2) pair occurs twice
pivot(rows) ==
    IF DuplicatePairs(rows) THEN ErrorFrame("ValueError")
    ELSE LET I == {rows[i].id_1 : i \in DOMAIN rows}
             J == {rows[i].id_2 : i \in DOMAIN rows}
         IN  [error   |-> "",
              index   |-> SortedSeq(I),
              columns |-> SortedSeq(J),
              cell    |-> [p \in I \X J |->
                              IF \E i \in DOMAIN rows :
                                     rows[i].id_1 = p[1] /\ rows[i].id_2 = p[2]
                              THEN (CHOOSE r \in Range(rows) :
                                        r.id_1 = p[1] /\ r.id_2 = p[2]).car
                              ELSE NaN]]

fillna(m, v) ==
    [m EXCEPT !.cell = [p \in DOMAIN m.cell |-> IF m.cell[p] = NaN THEN v ELSE m.cell[p]]]

\* car_matrix.at[index, index] = 0: the cell is set; a column label that does
\* not exist is appended, with NaN in its other rows
set_at(m, r, c, v) ==
    IF c \in Range(m.columns)
    THEN [m EXCEPT !.cell = [m.cell EXCEPT ![<<r, c>>] = v]]
    ELSE [m EXCEPT !.columns = Append(m.columns, c),
                   !.cell = [p \in (DOMAIN m.cell) \cup (Range(m.index) \X {c}) |->
                                IF p = <<r, c>> THEN v
                                ELSE IF p[2] = c THEN NaN
                                ELSE m.cell[p]]]

\* for index in car_matrix.index: car_matrix.at[index, index] = 0
RECURSIVE zero_diagonal(_, _)
zero_diagonal(m, k) ==
    IF k > Len(m.index) THEN m
    ELSE zero_diagonal(set_at(m, m.index[k], m.index[k], 0), k + 1)

generate_car_matrix(rows) ==
    LET p == pivot(rows)
    IN  IF p.error # "" THEN p ELSE zero_diagonal(fillna(p, 0), 1)

\* pairs = [(start, end) for start in df.index for end in df.index if start != end]
index_pairs(idx) ==
    LET n == Len(idx)
        all == [k \in 1..(n * n) |-> <<idx[((k - 1) \div n) + 1], idx[((k - 1) % n) + 1]>>]
        NotSelf(p) == p[1] # p[2]
    IN  SelectSeq(all, NotSelf)

\* the unrolled table: one row per pair, distance = df.at[id_start, id_end];
\* KeyError when a row label is no column label
unroll_distance_matrix(m) ==
    LET pairs == index_pairs(m.index)
    IN  IF \E k \in DOMAIN pairs : pairs[k] \notin DOMAIN m.cell
        THEN [error |-> "KeyError", rows |-> <<>>]
        ELSE [error |-> "",
              rows  |-> [k \in DOMAIN pairs |->
                            [id_start |-> pairs[k][1], id_end |-> pairs[k][2],
                             distance |-> m.cell[pairs[k]]]]]

\* the unrolled table under the column names generate_car_matrix reads
as_car_rows(rows) ==
    [k \in DOMAIN rows |->
        [id_1 |-> rows[k].id_start, id_2 |-> rows[k].id_end, car |-> rows[k].distance]]

InitCM ==
    /\ pc = "input"
    /\ df = <<>>
    /\ g = <<>> /\ distance_df = <<>>
    /\ car_matrix = <<>> /\ unrolled_df = <<>> /\ rebuilt_matrix = <<>>
    /\ sorted_type_count = <<>> /\ completeness_series = <<>>
    /\ reference_id = 0 /\ filtered_df = <<>>
    /\ today = 0 /\ result_df = <<>>
    /\ calls = <<>>

AppendCarRow ==
    /\ pc = "input"
    /\ Len(df) < MaxCarRows
    /\ \E a \in CarIds, b \in CarIds, c \in CarVals :
          df' = Append(df, [id_1 |-> a, id_2 |-> b, car |-> c])
    /\ UNCHANGED <<pc, dmVars, cmVars, gtVars, tcVars, tfVars, twVars, calls>>

GenerateCarMatrix ==
    /\ pc = "input"
    /\ df # <<>>
    /\ car_matrix' = generate_car_matrix(df)
    /\ pc' = "built"
    /\ calls' = Append(calls, "generate_car_matrix")
    /\ UNCHANGED <<df, dmVars, unrolled_df, rebuilt_matrix, gtVars, tcVars, tfVars, twVars>>

UnrollCarMatrix ==
    /\ pc = "built"
    /\ car_matrix.error = ""
    /\ unrolled_df' = unroll_distance_matrix(car_matrix)
    /\ pc' = "unrolled"
    /\ calls' = Append(calls, "unroll_distance_matrix")
    /\ UNCHANGED <<df, dmVars, car_matrix, rebuilt_matrix, gtVars, tcVars, tfVars, twVars>>

RebuildCarMatrix ==
    /\ pc = "unrolled"
    /\ unrolled_df.error = ""
    /\ unrolled_df.rows # <<>>
    /\ rebuilt_matrix' = generate_car_matrix(as_car_rows(unrolled_df.rows))
    /\ pc' = "rebuilt"
    /\ calls' = Append(calls, "generate_car_matrix")
    /\ UNCHANGED <<df, dmVars, car_matrix, unrolled_df, gtVars, tcVars, tfVars, twVars>>

NextCM == AppendCarRow \/ GenerateCarMatrix \/ UnrollCarMatrix \/ RebuildCarMatrix

SpecCM == InitCM /\ [][NextCM]_vars

CarIdsOf(rows) ==
    {rows[i].id_1 : i \in DOMAIN rows} \cup {rows[i].id_2 : i \in DOMAIN rows}

\* C3: generate_car_matrix returns a square table whose row labels and whose
\* column labels are each the distinct ids of id_1 and id_2 together, with 0 on
\* the diagonal, the car value of row (a, b) in cell (a, b) for a # b, and 0,
\* never a missing value, in every other cell.
C3_CarMatrixContract ==
    pc = "built" =>
        /\ car_matrix.error = ""
        /\ Len(car_matrix.index) = Len(car_matrix.columns)
        /\ Range(car_matrix.index) = CarIdsOf(df)
        /\ Range(car_matrix.columns) = CarIdsOf(df)
        /\ DOMAIN car_matrix.cell = CarIdsOf(df) \X CarIdsOf(df)
        /\ \A p \in DOMAIN car_matrix.cell :
              car_matrix.cell[p] =
                  IF p[1] # p[2] /\ \E i \in DOMAIN df : <<df[i].id_1, df[i].id_2>> = p
                  THEN (CHOOSE r \in Range(df) : <<r.id_1, r.id_2>> = p).car
                  ELSE 0

\* C8: for a table of distinct ordered pairs, building the matrix, unrolling it
\* and building a matrix again succeeds; the unrolled table has exactly one row
\* per ordered pair (i, j), i # j, of the matrix's labels and no self-pair; the
\* rebuilt matrix holds the original value of every non-diagonal pair of the
\* original table.
C8_RoundTrip ==
    ~DuplicatePairs(df) =>
        /\ pc \in {"built", "unrolled", "rebuilt"} => car_matrix.error = ""
        /\ pc \in {"unrolled", "rebuilt"} =>
              /\ unrolled_df.error = ""
              /\ \A k \in DOMAIN unrolled_df.rows :
                    unrolled_df.rows[k].id_start # unrolled_df.rows[k].id_end
              /\ \A i, j \in Range(car_matrix.index) :
                    i # j =>
                        Cardinality({k \in DOMAIN unrolled_df.rows :
                            /\ unrolled_df.rows[k].id_start = i
                            /\ unrolled_df.rows[k].id_end = j}) = 1
        /\ pc = "rebuilt" =>
              /\ rebuilt_matrix.error = ""
              /\ \A k \in DOMAIN df :
                    df[k].id_1 # df[k].id_2 =>
                        /\ <<df[k].id_1, df[k].id_2>> \in DOMAIN rebuilt_matrix.cell
                        /\ rebuilt_matrix.cell[<<df[k].id_1, df[k].id_2>>] = df[k].car

\* ------------------------------------------------------------ get_type_count
\* car values the rows are drawn from: both sides of each bin edge, and NaN
TypeCarVals == {5, 14, 15, 24, 25, 30, NaN}

\* mutant of cut: bins closed on the right, (-inf, 15], (15, 25], (25, inf)
cut_right_closed(v) ==
    IF v = NaN THEN "NaN"
    ELSE IF v <= 15 THEN "low"
    ELSE IF v <= 25 THEN "medium"
    ELSE "high"

\* pd.cut(v, bins=[-inf, 15, 25, inf], labels=['low', 'medium', 'high'],
\* right=False): [-inf, 15), [15, 25), [25, inf); NaN has no category
cut(v) ==
    IF v = NaN THEN "NaN"
    ELSE IF v < 15 THEN "low"
    ELSE IF v < 25 THEN "medium"
    ELSE "high"

\* df[c] = values: the column is added to, or replaced in, the caller's table
set_column(rows, c, values) ==
    [i \in DOMAIN rows |->
        [f \in (DOMAIN rows[i]) \cup {c} |-> IF f = c THEN values[i] ELSE rows[i][f]]]

\* the table after df['car_type'] = pd.cut(df['car'], ...)
get_type_count_df(rows) ==
    set_column(rows, "car_type", [i \in DOMAIN rows |-> cut(rows[i].car)])

\* value_counts() of the categorical column counts every category, missing
\* values left out; dict(sorted(...)) orders the keys
value_counts(col) ==
    [k \in {"high", "low", "medium"} |-> Cardinality({i \in DOMAIN col : col[i] = k})]

get_type_count(rows) == value_counts(Column(get_type_count_df(rows), "car_type"))

InitGT ==
    /\ pc = "input"
    /\ df = <<>>
    /\ g = <<>> /\ distance_df = <<>>
    /\ car_matrix = <<>> /\ unrolled_df = <<>> /\ rebuilt_matrix = <<>>
    /\ sorted_type_count = <<>> /\ completeness_series = <<>>
    /\ reference_id = 0 /\ filtered_df = <<>>
    /\ today = 0 /\ result_df = <<>>
    /\ calls = <<>>

AppendTypeRow ==
    /\ pc = "input"
    /\ Len(df) < MaxTypeRows
    /\ \E v \in TypeCarVals : df' = Append(df, [car |-> v])
    /\ UNCHANGED <<pc, dmVars, cmVars, gtVars, tcVars, tfVars, twVars, calls>>

GetTypeCount ==
    /\ pc = "input"
    /\ df # <<>>
    /\ sorted_type_count' = get_type_count(df)
    /\ df' = get_type_count_df(df)
    /\ pc' = "done"
    /\ calls' = Append(calls, "get_type_count")
    /\ UNCHANGED <<dmVars, cmVars, tcVars, tfVars, twVars>>

NextGT == AppendTypeRow \/ GetTypeCount

SpecGT == InitGT /\ [][NextGT]_vars

CountOf(d, k) == IF k \in DOMAIN d THEN d[k] ELSE 0

\* C7: the keys of the mapping are among low, medium, high; low counts the
\* rows with car < 15, medium those with 15 <= car < 25, high those with
\* car >= 25; the counts sum to the number of rows with a defined car value.
C7_TypeCounts ==
    pc = "done" =>
        LET Defined == {i \in DOMAIN df : df[i].car # NaN}
        IN  /\ DOMAIN sorted_type_count \subseteq {"low", "medium", "high"}
            /\ CountOf(sorted_type_count, "low") =
                  Cardinality({i \in Defined : df[i].car < 15})
            /\ CountOf(sorted_type_count, "medium") =
                  Cardinality({i \in Defined : 15 <= df[i].car /\ df[i].car < 25})
            /\ CountOf(sorted_type_count, "high") =
                  Cardinality({i \in Defined : df[i].car >= 25})
            /\ CountOf(sorted_type_count, "low") + CountOf(sorted_type_count, "medium")
                  + CountOf(sorted_type_count, "high") = Cardinality(Defined)

\* a table with both bin edges and an undefined car value
C7_Witness ==
    /\ pc = "done"
    /\ Len(df) = 4
    /\ \E i, j, k, l \in DOMAIN df :
          df[i].car = 15 /\ df[j].car = 25 /\ df[k].car = NaN /\ df[l].car = 5
    /\ sorted_type_count = [high |-> 1, low |-> 1, medium |-> 1]

\* ------------------------------------ find_ids_within_ten_percentage_threshold
\* ids and distances of the unrolled rows; RefIds are the reference ids tried,
\* one of them (3) no id_start of any row
FilterStarts == {1, 2}
FilterEnds == {1, 2}
FilterDists == {8, 9, 10, 11, 12}
RefIds == {1, 2, 3}

\* the rows with id_start == reference_id
reference_rows(rows, ref) ==
    SelectSeq(rows, LAMBDA r : r.id_start = ref)

\* lower_threshold <= distance <= upper_threshold with
\* average_distance = sum / n, lower = 0.9 * average, upper = 1.1 * average,
\* in exact arithmetic; the mean of no rows is NaN and every comparison with
\* it is false
in_band(d, sum, n) ==
    /\ n > 0
    /\ 10 * n * d >= 9 * sum
    /\ 10 * n * d <= 11 * sum

\* mutant of keep_row: the rows of the reference id are not left out
keep_row_with_reference(r, ref, sum, n) == in_band(r.distance, sum, n)

\* the row mask of the filter
keep_row(r, ref, sum, n) == r.id_start # ref /\ in_band(r.distance, sum, n)

find_ids_within_ten_percentage_threshold(rows, ref) ==
    LET refd == Column(reference_rows(rows, ref), "distance")
    IN  SelectSeq(rows, LAMBDA r : keep_row(r, ref, SumSeq(refd), Len(refd)))

InitTF ==
    /\ pc = "input"
    /\ df = <<>>
    /\ g = <<>> /\ distance_df = <<>>
    /\ car_matrix = <<>> /\ unrolled_df = <<>> /\ rebuilt_matrix = <<>>
    /\ sorted_type_count = <<>> /\ completeness_series = <<>>
    /\ reference_id = 0 /\ filtered_df = <<>>
    /\ today = 0 /\ result_df = <<>>
    /\ calls = <<>>

AppendFilterRow ==
    /\ pc = "input"
    /\ Len(df) < MaxFilterRows
    /\ \E s \in FilterStarts, e \in FilterEnds, d \in FilterDists :
          /\ s # e
          /\ df' = Append(df, [id_start |-> s, id_end |-> e, distance |-> d])
    /\ UNCHANGED <<pc, dmVars, cmVars, gtVars, tcVars, tfVars, twVars, calls>>

FindIdsWithinTenPercentageThreshold ==
    /\ pc = "input"
    /\ df # <<>>
    /\ \E ref \in RefIds :
          /\ reference_id' = ref
          /\ filtered_df' = find_ids_within_ten_percentage_threshold(df, ref)
    /\ pc' = "done"
    /\ calls' = Append(calls, "find_ids_within_ten_percentage_threshold")
    /\ UNCHANGED <<df, dmVars, cmVars, gtVars, tcVars, twVars>>

NextTF == AppendFilterRow \/ FindIdsWithinTenPercentageThreshold

SpecTF == InitTF /\ [][NextTF]_vars

\* the positions of rows whose id_start is the reference
RefPositions == {i \in DOMAIN df : df[i].id_start = reference_id}

RefSum == SumSeq([k \in 1..Len(df) |-> IF k \in RefPositions THEN df[k].distance ELSE 0])

\* row i lies in the band around the reference average: 0.9 avg <= d <= 1.1 avg
Expected(i) ==
    /\ df[i].id_start # reference_id
    /\ RefPositions # {}
    /\ 10 * df[i].distance * Cardinality(RefPositions) >= 9 * RefSum
    /\ 10 * df[i].distance * Cardinality(RefPositions) <= 11 * RefSum

TollStarts == {1, 2}
TollEnds == {1, 2}
TollDists == {10, 20}

\* strftime('%A') of a date by its weekday(), Monday = 0
DayNames == <<"Monday", "Tuesday", "Wednesday", "Thursday", "Friday", "Saturday", "Sunday">>

\* the discount factors in tenths: 0.8, 1.2, 0.8 and weekend_discount = 0.7
weekday_discounts ==
    <<[start_time |-> "00:00:00", end_time |-> "10:00:00", factor10 |-> 8],
      [start_time |-> "10:00:00", end_time |-> "18:00:00", factor10 |-> 12],
      [start_time |-> "18:00:00", end_time |-> "23:59:59", factor10 |-> 8]>>

weekend_discounts ==
    <<[start_time |-> "00:00:00", end_time |-> "23:59:59", factor10 |-> 7]>>

\* the windows of loop value day: chosen by day < 5, day counted from today
windows_of(day) == IF day < 5 THEN weekday_discounts ELSE weekend_discounts

\* weekday name of datetime.combine(datetime.today(), t) + timedelta(days=day)
day_name_after(t, day) == DayNames[((t + day) % 7) + 1]

PairLess(p, q) == p[1] < q[1] \/ (p[1] = q[1] /\ p[2] < q[2])

\* the group keys of groupby(['id_start', 'id_end']), in sorted order
RECURSIVE SortedPairs(_)
SortedPairs(S) ==
    IF S = {} THEN <<>>
    ELSE LET lo == CHOOSE p \in S : \A q \in S \ {p} : PairLess(p, q)
         IN  <<lo>> \o SortedPairs(S \ {lo})

group_keys(rows) == SortedPairs({<<rows[i].id_start, rows[i].id_end>> : i \in DOMAIN rows})

group_rows(rows, key) == SelectSeq(rows, LAMBDA r : <<r.id_start, r.id_end>> = key)

\* group_df['distance'].mean() * discount_factor as the fraction num / den
scaled_mean(grp, factor10) ==
    [num |-> SumSeq(Column(grp, "distance")) * factor10, den |-> Len(grp) * 10]

\* the rows appended for one group and one day
day_rows(grp, t, day) ==
    LET w == windows_of(day)
    IN  [k \in DOMAIN w |->
            [id_start   |-> grp[1].id_start,
             id_end     |-> grp[1].id_end,
             start_day  |-> day_name_after(t, day),
             start_time |-> w[k].start_time,
             end_day    |-> day_name_after(t, day),
             end_time   |-> w[k].end_time,
             distance   |-> scaled_mean(grp, w[k].factor10)]]

RECURSIVE days_from(_, _, _)
days_from(grp, t, day) ==
    IF day >= 7 THEN <<>> ELSE day_rows(grp, t, day) \o days_from(grp, t, day + 1)

RECURSIVE groups_from(_, _, _)
groups_from(rows, keys, t) ==
    IF keys = <<>> THEN <<>>
    ELSE days_from(group_rows(rows, Head(keys)), t, 0) \o groups_from(rows, Tail(keys), t)

calculate_time_based_toll_rates(rows, t) == groups_from(rows, group_keys(rows), t)

InitTW ==
    /\ pc = "input"
    /\ df = <<>>
    /\ g = <<>> /\ distance_df = <<>>
    /\ car_matrix = <<>> /\ unrolled_df = <<>> /\ rebuilt_matrix = <<>>
    /\ sorted_type_count = <<>> /\ completeness_series = <<>>
    /\ reference_id = 0 /\ filtered_df = <<>>
    /\ today = 0 /\ result_df = <<>>
    /\ calls = <<>>

AppendTollRow ==
    /\ pc = "input"
    /\ Len(df) < MaxTollRows
    /\ \E s \in TollStarts, e \in TollEnds, d \in TollDists :
          df' = Append(df, [id_start |-> s, id_end |-> e, distance |-> d])
    /\ UNCHANGED <<pc, dmVars, cmVars, gtVars, tcVars, tfVars, twVars, calls>>

\* the call happens on a date of any weekday
CalculateTimeBasedTollRates ==
    /\ pc = "input"
    /\ df # <<>>
    /\ \E t \in 0..6 :
          /\ today' = t
          /\ result_df' = calculate_time_based_toll_rates(df, t)
    /\ pc' = "done"
    /\ calls' = Append(calls, "calculate_time_based_toll_rates")
    /\ UNCHANGED <<df, dmVars, cmVars, gtVars, tcVars, tfVars>>

NextTW == AppendTollRow \/ CalculateTimeBasedTollRates

SpecTW == InitTW /\ [][NextTW]_vars

\* the rows of the result for one pair, one day name and one window
WindowRows(key, name, w) ==
    {k \in DOMAIN result_df :
        /\ <<result_df[k].id_start, result_df[k].id_end>> = key
        /\ result_df[k].start_day = name
        /\ result_df[k].start_time = w.start_time
        /\ result_df[k].end_time = w.end_time
        /\ result_df[k].end_day = name
        /\ LET grp == group_rows(df, key)
           IN  result_df[k].distance.num * (Len(grp) * 10) =
                   SumSeq(Column(grp, "distance")) * w.factor10 * result_df[k].distance.den}

\* C5: whatever the date of the call, every unique (id_start, id_end) pair has
\* exactly 17 rows: for each of Monday..Friday one row per window
\* 00:00:00-10:00:00 (0.8), 10:00:00-18:00:00 (1.2), 18:00:00-23:59:59 (0.8),
\* for Saturday and Sunday one row 00:00:00-23:59:59 (0.7), each with
\* start_day = end_day and distance = the pair's mean distance times the factor.
C5_SeventeenRowsByWeekdayName ==
    pc = "done" =>
        \A key \in Range(group_keys(df)) :
            /\ Cardinality({k \in DOMAIN result_df :
                   <<result_df[k].id_start, result_df[k].id_end>> = key}) = 17
            /\ \A d \in 1..5 : \A i \in DOMAIN weekday_discounts :
                   Cardinality(WindowRows(key, DayNames[d], weekday_discounts[i])) = 1
            /\ \A d \in 6..7 :
                   Cardinality(WindowRows(key, DayNames[d], weekend_discounts[1])) = 1

\* the same statement for calls made on a Monday only
C5_OnMondays == (pc = "done" /\ today = 0) => C5_SeventeenRowsByWeekdayName

\* the row count alone, on any date
C5_SeventeenRows ==
    pc = "done" =>
        \A key \in Range(group_keys(df)) :
            Cardinality({k \in DOMAIN result_df :
                <<result_df[k].id_start, result_df[k].id_end>> = key}) = 17

\* ---------------------------------------------------------------- time_check
WeekDays == Range(DayNames)

\* the seconds of the day, set(pd.date_range('00:00:00', '23:59:59', freq='1S').time)
AllSeconds == 0..(SecondsPerDay - 1)

\* startDay strings: the weekday names and one string that is no date;
\* startTime strings, by their second: those of the day and one ("24:00:00")
\* that is no time
DayStrings == WeekDays \cup {"Funday"}
TimeStrings == 0..SecondsPerDay

TimeKeys == {<<1, 1>>, <<1, 2>>}

NaT == [weekday |-> NaN, second |-> NaN]

\* pd.to_datetime(day + ' ' + time, errors='coerce'): a timestamp on the named
\* weekday at the given time, NaT when the string does not parse
to_datetime(day, time) ==
    IF day \in WeekDays /\ time \in AllSeconds
    THEN [weekday |-> IndexOf(DayNames, day) - 1, second |-> time]
    ELSE NaT

\* Series.dt.day_name() and Series.dt.time
day_name(ts) == IF ts = NaT THEN "NaN" ELSE DayNames[ts.weekday + 1]
time_of(ts) == IF ts = NaT THEN NaN ELSE ts.second

\* the caller's table after the four column assignments
time_check_df(rows) ==
    LET r1 == set_column(rows, "start_timestamp",
                  [i \in DOMAIN rows |-> to_datetime(rows[i].startDay, rows[i].startTime)])
        r2 == set_column(r1, "end_timestamp",
                  [i \in DOMAIN rows |-> to_datetime(rows[i].endDay, rows[i].endTime)])
        r3 == set_column(r2, "start_day",
                  [i \in DOMAIN rows |-> day_name(r2[i].start_timestamp)])
    IN  set_column(r3, "start_time",
                  [i \in DOMAIN rows |-> time_of(r3[i].start_timestamp)])

\* mutant of check_timestamp_completeness: either coverage is enough
check_timestamp_completeness_or(group) ==
    \/ Range(Column(group, "start_day")) = WeekDays
    \/ Range(Column(group, "start_time")) = AllSeconds

check_timestamp_completeness(group) ==
    LET days_present == Range(Column(group, "start_day")) = WeekDays
        time_ranges_present == Range(Column(group, "start_time")) = AllSeconds
    IN  days_present /\ time_ranges_present

\* df.groupby(['id', 'id_2']).apply(check_timestamp_completeness)
time_check(rows) ==
    LET t == time_check_df(rows)
    IN  [key \in {<<t[i].id, t[i].id_2>> : i \in DOMAIN t} |->
            check_timestamp_completeness(
                SelectSeq(t, LAMBDA r : <<r.id, r.id_2>> = key))]

\* the day sets a group is drawn with: the week, the week less one day, and
\* the week with the string that is no date
DaySets ==
    {WeekDays \ X : X \in {{}} \cup {{d} : d \in WeekDays}} \cup {DayStrings}
TimeSets == (SUBSET TimeStrings) \ {{}}

\* one row per day of D and time of T, days in week order
group_input(key, D, T) ==
    LET days == SelectSeq(DayNames \o <<"Funday">>, LAMBDA d : d \in D)
        times == SortedSeq(T)
        n == Len(times)
    IN  [k \in 1..(Len(days) * n) |->
            [id        |-> key[1],
             id_2      |-> key[2],
             startDay  |-> days[((k - 1) \div n) + 1],
             startTime |-> times[((k - 1) % n) + 1],
             endDay    |-> days[((k - 1) \div n) + 1],
             endTime   |-> SecondsPerDay - 1]]

InitTC ==
    /\ pc = "input"
    /\ df = <<>>
    /\ g = <<>> /\ distance_df = <<>>
    /\ car_matrix = <<>> /\ unrolled_df = <<>> /\ rebuilt_matrix = <<>>
    /\ sorted_type_count = <<>> /\ completeness_series = <<>>
    /\ reference_id = 0 /\ filtered_df = <<>>
    /\ today = 0 /\ result_df = <<>>
    /\ calls = <<>>

\* the rows of one more (id, id_2) pair are appended to the table
AppendGroup ==
    /\ pc = "input"
    /\ \E key \in TimeKeys, D \in DaySets, T \in TimeSets :
          /\ \A i \in DOMAIN df : PairLess(<<df[i].id, df[i].id_2>>, key)
          /\ df' = df \o group_input(key, D, T)
    /\ UNCHANGED <<pc, dmVars, cmVars, gtVars, tcVars, tfVars, twVars, calls>>

TimeCheck ==
    /\ pc = "input"
    /\ df # <<>>
    /\ completeness_series' = time_check(df)
    /\ df' = time_check_df(df)
    /\ pc' = "done"
    /\ calls' = Append(calls, "time_check")
    /\ UNCHANGED <<dmVars, cmVars, gtVars, tfVars, twVars>>

NextTC == AppendGroup \/ TimeCheck

SpecTC == InitTC /\ [][NextTC]_vars

\* the rows of a group, and whether a row's startDay and startTime parse
GroupOf(key) == {i \in DOMAIN df : <<df[i].id, df[i].id_2>> = key}
Parses(i) == df[i].startDay \in WeekDays /\ df[i].startTime \in AllSeconds

\* C4: a group is reported true exactly when the weekday names of its parsed
\* start timestamps are the seven days and its start times are every second
\* of the day: every row parses, every weekday names some row and every second
\* is the time of some row.  Seven weekdays with one second missing is false.
C4_Completeness ==
    pc = "done" =>
        /\ DOMAIN completeness_series = {<<df[i].id, df[i].id_2>> : i \in DOMAIN df}
        /\ \A key \in DOMAIN completeness_series :
              completeness_series[key] =
                  (/\ \A i \in GroupOf(key) : Parses(i)
                   /\ \A d \in WeekDays : \E i \in GroupOf(key) : df[i].startDay = d
                   /\ \A s \in AllSeconds : \E i \in GroupOf(key) : df[i].startTime = s)

\* one group with every weekday and every second, reported true, beside a
\* group with every weekday and one second missing, reported false
C4_Witness ==
    /\ pc = "done"
    /\ DOMAIN completeness_series = TimeKeys
    /\ completeness_series[<<1, 1>>] = TRUE
    /\ completeness_series[<<1, 2>>] = FALSE
    /\ \A i \in GroupOf(<<1, 2>>) : Parses(i)
    /\ {df[i].startDay : i \in GroupOf(<<1, 2>>)} = WeekDays
    /\ Cardinality(AllSeconds \ {df[i].startTime : i \in GroupOf(<<1, 2>>)}) = 1

\* ------------------------------------------------------- calculate_toll_rate
\* rate_coefficients in tenths, in the order of the dict: 0.8, 1.2, 1.5, 2.2, 3.6
rate_coefficients ==
    <<[vehicle_type |-> "moto", coefficient10 |-> 8],
      [vehicle_type |-> "car", coefficient10 |-> 12],
      [vehicle_type |-> "rv", coefficient10 |-> 15],
      [vehicle_type |-> "bus", coefficient10 |-> 22],
      [vehicle_type |-> "truck", coefficient10 |-> 36]>>

\* df['distance'] * rate_coefficient; the distances drawn are multiples of 10,
\* so every product is a whole number
toll(distance, coefficient10) == (distance * coefficient10) \div 10

\* mutant of calculate_toll_rate_from: the rate is written back to 'distance'
RECURSIVE calculate_toll_rate_scaling_distance(_, _)
calculate_toll_rate_scaling_distance(rows, k) ==
    IF k > Len(rate_coefficients) THEN rows
    ELSE calculate_toll_rate_scaling_distance(
             set_column(set_column(rows, rate_coefficients[k].vehicle_type,
                 [i \in DOMAIN rows |->
                     toll(rows[i].distance, rate_coefficients[k].coefficient10)]),
                 "distance",
                 [i \in DOMAIN rows |->
                     toll(rows[i].distance, rate_coefficients[k].coefficient10)]),
             k + 1)

\* for vehicle_type, rate_coefficient in rate_coefficients.items():
\*     df[vehicle_type] = df['distance'] * rate_coefficient
RECURSIVE calculate_toll_rate_from(_, _)
calculate_toll_rate_from(rows, k) ==
    IF k > Len(rate_coefficients) THEN rows
    ELSE calculate_toll_rate_from(
             set_column(rows, rate_coefficients[k].vehicle_type,
                 [i \in DOMAIN rows |->
                     toll(rows[i].distance, rate_coefficients[k].coefficient10)]),
             k + 1)

\* the caller's table after the call, which is also the value returned
calculate_toll_rate(rows) == calculate_toll_rate_from(rows, 1)

\* ---------------------------------------------------------------------------
\* Several transforms called, in any order, on one table that has the columns
\* each of them reads.
FrameCars == {10, 30}
FrameDists == {10, 20}

frame_row(c, d) ==
    [id |-> 1, id_2 |-> 1,
     startDay |-> "Monday", startTime |-> 0, endDay |-> "Monday", endTime |-> 0,
     id_start |-> 1, id_end |-> 2,
     car |-> c, distance |-> d]

InitFrame ==
    /\ pc = "input"
    /\ df = <<>>
    /\ g = <<>> /\ distance_df = <<>>
    /\ car_matrix = <<>> /\ unrolled_df = <<>> /\ rebuilt_matrix = <<>>
    /\ sorted_type_count = <<>> /\ completeness_series = <<>>
    /\ reference_id = 0 /\ filtered_df = <<>>
    /\ today = 0 /\ result_df = <<>>
    /\ calls = <<>>

AppendFrameRow ==
    /\ pc = "input"
    /\ Len(df) < MaxFrameRows
    /\ \E c \in FrameCars, d \in FrameDists : df' = Append(df, frame_row(c, d))
    /\ UNCHANGED <<pc, dmVars, cmVars, gtVars, tcVars, tfVars, twVars, calls>>

CanCall == df # <<>> /\ Len(calls) < MaxCalls

CallGetTypeCount ==
    /\ CanCall
    /\ sorted_type_count' = get_type_count(df)
    /\ df' = get_type_count_df(df)
    /\ pc' = "called"
    /\ calls' = Append(calls, "get_type_count")
    /\ UNCHANGED <<dmVars, cmVars, tcVars, tfVars, twVars>>

CallTimeCheck ==
    /\ CanCall
    /\ completeness_series' = time_check(df)
    /\ df' = time_check_df(df)
    /\ pc' = "called"
    /\ calls' = Append(calls, "time_check")
    /\ UNCHANGED <<dmVars, cmVars, gtVars, tfVars, twVars>>

CallCalculateTollRate ==
    /\ CanCall
    /\ df' = calculate_toll_rate(df)
    /\ pc' = "called"
    /\ calls' = Append(calls, "calculate_toll_rate")
    /\ UNCHANGED <<dmVars, cmVars, gtVars, tcVars, tfVars, twVars>>

CallFindIds ==
    /\ CanCall
    /\ reference_id' = 1
    /\ filtered_df' = find_ids_within_ten_percentage_threshold(df, 1)
    /\ pc' = "called"
    /\ calls' = Append(calls, "find_ids_within_ten_percentage_threshold")
    /\ UNCHANGED <<df, dmVars, cmVars, gtVars, tcVars, twVars>>

NextFrame ==
    \/ AppendFrameRow
    \/ CallGetTypeCount
    \/ CallTimeCheck
    \/ CallCalculateTollRate
    \/ CallFindIds

SpecFrame == InitFrame /\ [][NextFrame]_vars

Written(op) ==
    CASE op = "get_type_count" -> {"car_type"}
      [] op = "time_check" -> {"start_timestamp", "end_timestamp", "start_day", "start_time"}
      [] op = "calculate_toll_rate" -> {"moto", "car", "rv", "bus", "truck"}
      [] OTHER -> {}

\* new is old with the columns W added or overwritten and nothing else touched
OnlyWrites(old, new, W) ==
    /\ Len(new) = Len(old)
    /\ \A i \in DOMAIN old :
          /\ DOMAIN new[i] = (DOMAIN old[i]) \cup W
          /\ \A c \in (DOMAIN old[i]) \ W : new[i][c] = old[i][c]

====
